---- MODULE Spec2Model ----
(***************************************************************************)
(* Model of backend/session/session.c (wlroots): the session core, its     *)
(* device registry, the udev hotplug dispatch and the create/destroy       *)
(* lifecycle.                                                              *)
(*                                                                         *)
(* External collaborators (the backend implementations, libudev, the       *)
(* wayland event loop, malloc, fstat) are inputs: every outcome they can   *)
(* report is drawn with \E.  Calls made to them during create/destroy are  *)
(* recorded in `log`, and every operation leaves a summary of itself in    *)
(* `last`, so that properties about what an operation did are state        *)
(* predicates.                                                             *)
(***************************************************************************)
EXTENDS Integers, Sequences, FiniteSets, TLC

\* ---------------------------------------------------------------- bounds
MaxFd == 2          \* descriptors the backend can hand out: 0 .. MaxFd-1
MaxQueue == 2       \* records pending on the udev monitor
MaxListeners == 1   \* wl_listener objects of the caller
MaxCards == 3       \* entries of the udev enumeration of drm cards

FdSet == 0 .. (MaxFd - 1)
DevNums == {5, 7}
Listeners == 1 .. MaxListeners
Backends == {"logind", "direct"}
\* udev_device_get_action: "add" stands for every string other than
\* "change", "none" for NULL.
Actions == {"change", "add", "none"}

VARIABLES
    has_systemd,  \* build option HAS_SYSTEMD
    ptr,          \* the caller's struct wlr_session *: uncreated, null, live,
                  \* dangling (destroyed once), destroyed_twice
    session,      \* the fields of struct wlr_session
    devices,      \* session->devices, head first
    open_fds,     \* descriptors open at the backend
    held,         \* fds open_file returned >= 0 and not since passed to close_file
    queue,        \* records pending on session->mon
    log,          \* calls made to the backends, libudev and the event loop by create/destroy
    gpu,          \* the run of wlr_session_find_gpu, once it was made
    last,         \* summary of the last operation
    aborted       \* the process was killed (assert(0), or a crash)

vars == <<has_systemd, ptr, session, devices, open_fds, held, queue, log,
          gpu, last, aborted>>

\* ------------------------------------------------------------- helpers
Call(c, a, o) == [call |-> c, arg |-> a, ok |-> o]

NoRec == [action |-> "", devnum |-> -1]

Summary(op, arg, ret, via, note) ==
    [op |-> op, arg |-> arg, ret |-> ret, via |-> via, note |-> note,
     rec |-> NoRec, emitted |-> <<>>, notified |-> <<>>, unref |-> 0]

Min(S) == CHOOSE x \in S : \A y \in S : x <= y

RemoveAt(s, i) == SubSeq(s, 1, i - 1) \o SubSeq(s, i + 1, Len(s))

\* wlr_session_find_gpu has not been called.
NoGpu == [state |-> "idle", ret |-> -1, cards |-> <<>>, probes |-> <<>>,
          closes |-> <<>>, before |-> <<>>, held_before |-> {}]

\* static const struct session_impl *impls[]
impls == IF has_systemd THEN <<"logind", "direct">> ELSE <<"direct">>

Init ==
    /\ has_systemd \in BOOLEAN
    /\ ptr = "uncreated"
    /\ session = [impl |-> "none", active |-> FALSE, udev |-> "unset",
                  mon |-> "unset", udev_event |-> "unset"]
    /\ devices = <<>>
    /\ open_fds = {}
    /\ held = {}
    /\ queue = <<>>
    /\ log = <<>>
    /\ gpu = NoGpu
    /\ last = Summary("init", -1, 0, "none", "")
    /\ aborted = FALSE

\* ------------------------------------------------- create and destroy
\* The state of a handle after a release call on it.
Freed(h) == IF h = "live" THEN "freed" ELSE h

\* wl_event_source_remove() dereferences its argument: only a registered
\* source may be passed.  udev_monitor_unref() and udev_unref() accept NULL.
DefinedRemove(h) == h = "live"
DefinedUnref(h) == h \in {"live", "null"}

\* wlr_session_destroy releasing the udev context before the monitor.
DestroyCalls_ContextFirst(s, stale) ==
    << Call("wl_event_source_remove", s.udev_event,
            ~stale /\ DefinedRemove(s.udev_event)),
       Call("udev_unref", s.udev, ~stale /\ DefinedUnref(s.udev)),
       Call("udev_monitor_unref", s.mon, ~stale /\ DefinedUnref(s.mon)),
       Call("impl_destroy", s.impl, ~stale) >>

\* The calls of wlr_session_destroy on a non-null session, in program order.
\* arg is the state of the handle passed (for impl->destroy: the backend);
\* ok says whether the call has defined behaviour.  stale: the session
\* itself was already freed by an earlier impl->destroy.
DestroyCalls(s, stale) ==
    << Call("wl_event_source_remove", s.udev_event,
            ~stale /\ DefinedRemove(s.udev_event)),
       Call("udev_monitor_unref", s.mon, ~stale /\ DefinedUnref(s.mon)),
       Call("udev_unref", s.udev, ~stale /\ DefinedUnref(s.udev)),
       Call("impl_destroy", s.impl, ~stale) >>

\* wlr_session_destroy(session), session non-null.  A call whose behaviour is
\* undefined either kills the process there (crashAt names it) or returns.
DestroyRun(s, stale, crashAt) ==
    LET calls == DestroyCalls(s, stale)
        done == IF crashAt = 0 THEN calls ELSE SubSeq(calls, 1, crashAt)
        made(c) == \E i \in 1 .. Len(done) : done[i].call = c
    IN [valid |-> crashAt = 0 \/ (crashAt \in 1 .. Len(calls) /\ ~calls[crashAt].ok),
        calls |-> done,
        crashed |-> crashAt # 0,
        session |-> [s EXCEPT
            !.udev_event = IF made("wl_event_source_remove") THEN Freed(@) ELSE @,
            !.mon = IF made("udev_monitor_unref") THEN Freed(@) ELSE @,
            !.udev = IF made("udev_unref") THEN Freed(@) ELSE @]]

\* The backend's own create(): it either fails (NULL) or returns a session
\* whose impl is that backend.  ok: the backends whose probe would succeed.
BackendCreate(b, ok) == IF b \in ok THEN b ELSE "none"

\* The probe loop without its !session test: every backend is probed and
\* the last result is kept.
RECURSIVE ProbeLoop_NoStop(_, _, _, _)
ProbeLoop_NoStop(i, sess, probed, ok) ==
    IF i <= Len(impls)
    THEN ProbeLoop_NoStop(i + 1, BackendCreate(impls[i], ok),
                          Append(probed, impls[i]), ok)
    ELSE [session |-> sess, probed |-> probed]

\* for (iter = impls; !session && *iter; ++iter) session = (*iter)->create(disp);
RECURSIVE ProbeLoop(_, _, _, _)
ProbeLoop(i, sess, probed, ok) ==
    IF sess = "none" /\ i <= Len(impls)
    THEN ProbeLoop(i + 1, BackendCreate(impls[i], ok), Append(probed, impls[i]), ok)
    ELSE [session |-> sess, probed |-> probed]

\* udev_new, udev_monitor_new_from_netlink, wl_event_loop_add_fd: each is
\* attempted only if the one before succeeded, and a failed one stores NULL.
Acquire(s, udevOK, monOK, evOK) ==
    [session |-> [s EXCEPT
        !.udev = IF udevOK THEN "live" ELSE "null",
        !.mon = IF ~udevOK THEN @ ELSE IF monOK THEN "live" ELSE "null",
        !.udev_event = IF ~(udevOK /\ monOK) THEN @
                       ELSE IF evOK THEN "live" ELSE "null"],
     calls |-> <<Call("udev_new", "", udevOK)>>
        \o (IF udevOK THEN <<Call("udev_monitor_new_from_netlink", "", monOK)>>
            ELSE <<>>)
        \o (IF udevOK /\ monOK THEN <<Call("wl_event_loop_add_fd", "", evOK)>>
            ELSE <<>>),
     note |-> IF ~udevOK THEN "udev_failed"
              ELSE IF ~monOK THEN "mon_failed"
              ELSE IF ~evOK THEN "event_failed" ELSE "ok"]

\* The labels error_mon and error_udev of wlr_session_create (error_session
\* is the call of wlr_session_destroy that follows them).
Unwind(s, note) ==
    LET atMon == note = "event_failed"
        atUdev == atMon \/ note = "mon_failed"
    IN [session |-> [s EXCEPT !.mon = IF atMon THEN Freed(@) ELSE @,
                              !.udev = IF atUdev THEN Freed(@) ELSE @],
        calls |-> (IF atMon THEN <<Call("udev_monitor_unref", s.mon, TRUE)>> ELSE <<>>)
               \o (IF atUdev THEN <<Call("udev_unref", s.udev, TRUE)>> ELSE <<>>)]

\* wlr_session_create(disp)
Create ==
    /\ ~aborted
    /\ ptr = "uncreated"
    /\ \E ok \in SUBSET Backends, udevOK \in BOOLEAN :
       \E monOK \in (IF udevOK THEN BOOLEAN ELSE {TRUE}) :
       \E evOK \in (IF udevOK /\ monOK THEN BOOLEAN ELSE {TRUE}) :
       \E crashAt \in 0 .. 4 :
        LET p == ProbeLoop(1, "none", <<>>, ok)
            probes == [i \in 1 .. Len(p.probed) |->
                          Call("impl_create", p.probed[i], p.probed[i] \in ok)]
            s0 == [session EXCEPT !.impl = p.session, !.active = TRUE]
            a == Acquire(s0, udevOK, monOK, evOK)
            u == Unwind(a.session, a.note)
            d == DestroyRun(u.session, FALSE, crashAt)
        IN IF p.session = "none"
           THEN /\ crashAt = 0
                /\ log' = log \o probes
                /\ ptr' = "null"
                /\ last' = Summary("create", -1, 0, "none", "no_backend")
                /\ UNCHANGED <<session, devices, aborted>>
           ELSE IF a.note = "ok"
           THEN /\ crashAt = 0
                /\ log' = log \o probes \o a.calls
                /\ session' = a.session
                /\ devices' = <<>>
                /\ ptr' = "live"
                /\ last' = Summary("create", -1, 1, p.session, "ok")
                /\ UNCHANGED aborted
           ELSE /\ d.valid
                /\ log' = log \o probes \o a.calls \o u.calls \o d.calls
                /\ session' = d.session
                /\ devices' = <<>>
                /\ ptr' = "null"
                /\ aborted' = d.crashed
                /\ last' = Summary("create", -1, 0, p.session, a.note)
    /\ UNCHANGED <<gpu, has_systemd, open_fds, held, queue>>

\* wlr_session_destroy(session), session non-null: live, or dangling after a
\* first destroy.  What follows a second destroy of the same session (a
\* double free) is not modelled: no operation is enabled after it.
Destroy ==
    /\ ~aborted
    /\ ptr \in {"live", "dangling"}
    /\ \E crashAt \in 0 .. 4 :
        LET stale == ptr = "dangling"
            d == DestroyRun(session, stale, crashAt)
        IN /\ d.valid
           /\ log' = log \o d.calls
           /\ session' = d.session
           /\ ptr' = IF stale THEN "destroyed_twice" ELSE "dangling"
           /\ aborted' = d.crashed
           /\ last' = Summary("destroy", -1, 0, session.impl,
                              IF stale THEN "stale" ELSE "live")
    /\ UNCHANGED <<gpu, has_systemd, devices, open_fds, held, queue>>

\* wlr_session_destroy(NULL)
DestroyNull ==
    /\ ~aborted
    /\ ptr \in {"uncreated", "null"}
    /\ last' = Summary("destroy", -1, 0, "none", "null")
    /\ UNCHANGED <<gpu, has_systemd, ptr, session, devices, open_fds, held,
                   queue, log, aborted>>

\* ------------------------------------------------------ device registry
\* struct device, as initialised by wlr_session_open_file
Device(fd, rdev) == [fd |-> fd, dev |-> rdev, signal |-> <<>>]

\* wlr_session_open_file inserting the entry although the stat failed.
OpenFileResult_InsertsOnStatFailure(devs, r, mallocOK, statOK, rdev) ==
    IF r < 0 THEN [ret |-> r, devices |-> devs, note |-> "backend"]
    ELSE IF ~mallocOK THEN [ret |-> r, devices |-> devs, note |-> "alloc"]
    ELSE IF ~statOK
    THEN [ret |-> r, devices |-> <<Device(r, rdev)>> \o devs, note |-> "stat"]
    ELSE [ret |-> r, devices |-> <<Device(r, rdev)>> \o devs, note |-> "ok"]

\* wlr_session_open_file(session, path).  r is what impl->open returns.
\* On the error label the entry is freed and the function returns fd.
OpenFileResult(devs, r, mallocOK, statOK, rdev) ==
    IF r < 0 THEN [ret |-> r, devices |-> devs, note |-> "backend"]
    ELSE IF ~mallocOK THEN [ret |-> r, devices |-> devs, note |-> "alloc"]
    ELSE IF ~statOK THEN [ret |-> r, devices |-> devs, note |-> "stat"]
    ELSE [ret |-> r, devices |-> <<Device(r, rdev)>> \o devs, note |-> "ok"]

OpenFile ==
    /\ ~aborted
    /\ ptr = "live"
    /\ \E r \in {-1} \cup (FdSet \ open_fds) :
       \E mallocOK \in (IF r < 0 THEN {TRUE} ELSE BOOLEAN) :
       \E statOK \in (IF mallocOK THEN BOOLEAN ELSE {TRUE}) :
       \E rdev \in (IF r >= 0 /\ mallocOK /\ statOK THEN DevNums ELSE {Min(DevNums)}) :
        LET o == OpenFileResult(devices, r, mallocOK, statOK, rdev)
        IN /\ devices' = o.devices
           /\ open_fds' = IF r >= 0 THEN open_fds \cup {r} ELSE open_fds
           /\ held' = IF o.ret >= 0 THEN held \cup {o.ret} ELSE held
           /\ last' = Summary("open_file", r, o.ret, session.impl, o.note)
    /\ UNCHANGED <<gpu, has_systemd, ptr, session, queue, log, aborted>>

\* find_device without its assert(0): the scan runs off its end and the
\* entry it stopped at is used.
FindDevice_NoAssert(devs, fd) ==
    IF \E i \in 1 .. Len(devs) : devs[i].fd = fd
    THEN Min({i \in 1 .. Len(devs) : devs[i].fd = fd})
    ELSE Len(devs)

\* find_device(session, fd): the position of the first entry whose fd
\* matches; 0 stands for reaching assert(0) at the end of the scan.
FindDevice(devs, fd) ==
    IF \E i \in 1 .. Len(devs) : devs[i].fd = fd
    THEN Min({i \in 1 .. Len(devs) : devs[i].fd = fd})
    ELSE 0

\* wlr_session_close_file(session, fd)
CloseFile ==
    /\ ~aborted
    /\ ptr = "live"
    /\ \E fd \in FdSet :
        LET i == FindDevice(devices, fd)
        IN IF i = 0
           THEN /\ aborted' = TRUE
                /\ last' = Summary("close_file", fd, 0, "none", "abort")
                /\ UNCHANGED <<devices, open_fds, held>>
           ELSE /\ open_fds' = open_fds \ {fd}
                /\ devices' = RemoveAt(devices, i)
                /\ held' = held \ {fd}
                /\ last' = Summary("close_file", fd, 0, session.impl, "found")
                /\ UNCHANGED aborted
    /\ UNCHANGED <<gpu, has_systemd, ptr, session, queue, log>>

\* The listeners currently linked into the signal of some entry.
Attached(devs) ==
    {l \in Listeners : \E i \in 1 .. Len(devs) : \E k \in 1 .. Len(devs[i].signal) :
        devs[i].signal[k] = l}

\* wlr_session_signal_add(session, fd, listener); the caller passes a
\* listener that is not linked into a signal.
SignalAdd ==
    /\ ~aborted
    /\ ptr = "live"
    /\ \E fd \in FdSet, l \in Listeners \ Attached(devices) :
        LET i == FindDevice(devices, fd)
        IN IF i = 0
           THEN /\ aborted' = TRUE
                /\ last' = Summary("signal_add", fd, 0, "none", "abort")
                /\ UNCHANGED devices
           ELSE /\ devices' = [devices EXCEPT ![i].signal = Append(@, l)]
                /\ last' = Summary("signal_add", fd, 0, "none", "found")
                /\ UNCHANGED aborted
    /\ UNCHANGED <<gpu, has_systemd, ptr, session, open_fds, held, queue, log>>

\* wlr_session_change_vt returning true whatever the backend answered.
ChangeVtResult_IgnoresBackend(isNull, impl, r) ==
    IF isNull
    THEN [ret |-> 0, via |-> "none", arg |-> -1, note |-> "null"]
    ELSE [ret |-> 1, via |-> impl, arg |-> r, note |-> "delegated"]

\* wlr_session_change_vt(session, vt).  r is what impl->change_vt would
\* return (1 true, 0 false); arg records what the backend did return, -1
\* when it was not called.
ChangeVtResult(isNull, impl, r) ==
    IF isNull
    THEN [ret |-> 0, via |-> "none", arg |-> -1, note |-> "null"]
    ELSE [ret |-> r, via |-> impl, arg |-> r, note |-> "delegated"]

\* wlr_session_change_vt(session, vt), session non-null
ChangeVt ==
    /\ ~aborted
    /\ ptr = "live"
    /\ \E r \in {0, 1} :
        LET c == ChangeVtResult(FALSE, session.impl, r)
        IN last' = Summary("change_vt", c.arg, c.ret, c.via, c.note)
    /\ UNCHANGED <<gpu, has_systemd, ptr, session, devices, open_fds, held,
                   queue, log, aborted>>

\* wlr_session_change_vt(NULL, vt)
ChangeVtNull ==
    /\ ~aborted
    /\ ptr \in {"uncreated", "null"}
    /\ \E r \in {0, 1} :
        LET c == ChangeVtResult(TRUE, "none", r)
        IN last' = Summary("change_vt", c.arg, c.ret, c.via, c.note)
    /\ UNCHANGED <<gpu, has_systemd, ptr, session, devices, open_fds, held,
                   queue, log, aborted>>

\* ------------------------------------------------------- GPU discovery
\* One entry of the enumeration (subsystem drm, sysname card[0-9]*) and what
\* probing it would meet:
\*   resolved  udev_device_new_from_syspath returned a device
\*   boot      its pci parent has boot_vga = "1"
\*   open      "no_path": udev_device_get_devnode returned NULL;
\*             "fail": impl->open fails; "ok": impl->open returns an fd
\*   track     open_file's own steps: "ok", "alloc" (malloc fails),
\*             "stat" (fstat fails)
\*   kms       drmModeGetResources returned resources with crtcs,
\*             connectors and encoders; FALSE stands for both NULL and a
\*             count <= 0, which differ only in drmModeFreeResources
\* Fields that are never looked at take one fixed value.
Cards ==
    {c \in [resolved : BOOLEAN, boot : BOOLEAN,
            open : {"no_path", "fail", "ok"},
            track : {"ok", "alloc", "stat"},
            kms : BOOLEAN] :
        /\ ~c.resolved => (~c.boot /\ c.open = "no_path")
        /\ c.open # "ok" => (c.track = "ok" /\ ~c.kms)}

CardSeqs == UNION {[1 .. n -> Cards] : n \in 0 .. MaxCards}

\* st_rdev of a card's device node; discovery never reads it.
CardDev == Min(DevNums)

\* wlr_session_close_file as called from device_is_kms.
GpuClose(g, fd) ==
    LET i == FindDevice(g.devices, fd)
    IN IF i = 0
       THEN [g EXCEPT !.aborted = TRUE,
                      !.closes = Append(@, [fd |-> fd, tracked |-> FALSE])]
       ELSE [g EXCEPT !.devices = RemoveAt(@, i),
                      !.open_fds = @ \ {fd},
                      !.held = @ \ {fd},
                      !.closes = Append(@, [fd |-> fd, tracked |-> TRUE])]

\* device_is_kms(session, path, &fd) for card idx.  impl->open returns the
\* lowest descriptor that is free; a run that needs more descriptors than
\* FdSet has is marked invalid.
DeviceIsKms(g, c, idx) ==
    IF c.open = "no_path" THEN [g |-> g, ok |-> FALSE]
    ELSE
    LET free == FdSet \ g.open_fds
        r == IF c.open = "fail" THEN -1
             ELSE IF free = {} THEN -1 ELSE Min(free)
        o == OpenFileResult(g.devices, r, c.track # "alloc",
                            c.track # "stat", CardDev)
        g1 == [g EXCEPT
                 !.valid = @ /\ (c.open = "ok" => free # {}),
                 !.devices = o.devices,
                 !.open_fds = IF r >= 0 THEN @ \cup {r} ELSE @,
                 !.held = IF o.ret >= 0 THEN @ \cup {o.ret} ELSE @,
                 !.probes = Append(@, [idx |-> idx, boot |-> c.boot,
                                       had |-> g.fd, ret |-> o.ret])]
        fd == o.ret
    IN IF fd < 0 THEN [g |-> g1, ok |-> FALSE]
       ELSE IF ~c.kms THEN [g |-> GpuClose(g1, fd), ok |-> FALSE]
       ELSE LET g2 == IF g1.fd >= 0 THEN GpuClose(g1, g1.fd) ELSE g1
            IN IF g2.aborted THEN [g |-> g2, ok |-> FALSE]
               ELSE [g |-> [g2 EXCEPT !.fd = fd], ok |-> TRUE]

\* The loop of wlr_session_find_gpu never leaving on a boot_vga card.
RECURSIVE GpuLoop_NoBreak(_, _, _)
GpuLoop_NoBreak(i, g, cards) ==
    IF i > Len(cards) \/ g.aborted THEN g
    ELSE LET c == cards[i]
         IN IF ~c.resolved THEN GpuLoop_NoBreak(i + 1, g, cards)
            ELSE IF ~c.boot /\ g.fd >= 0
            THEN GpuLoop_NoBreak(i + 1, g, cards)
            ELSE GpuLoop_NoBreak(i + 1, DeviceIsKms(g, c, i).g, cards)

\* The loop of wlr_session_find_gpu passing over every card once it has an
\* fd, boot_vga or not.
RECURSIVE GpuLoop_KeepsFirst(_, _, _)
GpuLoop_KeepsFirst(i, g, cards) ==
    IF i > Len(cards) \/ g.aborted THEN g
    ELSE LET c == cards[i]
         IN IF ~c.resolved THEN GpuLoop_KeepsFirst(i + 1, g, cards)
            ELSE IF g.fd >= 0 THEN GpuLoop_KeepsFirst(i + 1, g, cards)
            ELSE GpuLoop_KeepsFirst(i + 1, DeviceIsKms(g, c, i).g, cards)

\* udev_list_entry_foreach in wlr_session_find_gpu, from card i on.
RECURSIVE GpuLoop(_, _, _)
GpuLoop(i, g, cards) ==
    IF i > Len(cards) \/ g.aborted THEN g
    ELSE LET c == cards[i]
         IN IF ~c.resolved THEN GpuLoop(i + 1, g, cards)
            ELSE IF ~c.boot /\ g.fd >= 0 THEN GpuLoop(i + 1, g, cards)
            ELSE LET k == DeviceIsKms(g, c, i)
                 IN IF ~k.ok THEN GpuLoop(i + 1, k.g, cards)
                    ELSE IF c.boot THEN k.g
                    ELSE GpuLoop(i + 1, k.g, cards)

\* wlr_session_find_gpu(session).  The compositor calls it once on a created
\* session.  enOK: udev_enumerate_new returned an enumeration; cards: the
\* list the scan produced.
FindGpu ==
    /\ ~aborted
    /\ ptr = "live"
    /\ gpu.state = "idle"
    /\ \E enOK \in BOOLEAN, cards \in CardSeqs :
        /\ ~enOK => cards = <<>>
        /\ LET g0 == [devices |-> devices, open_fds |-> open_fds,
                      held |-> held, fd |-> -1, aborted |-> FALSE,
                      valid |-> TRUE, probes |-> <<>>, closes |-> <<>>]
               g == IF enOK THEN GpuLoop(1, g0, cards) ELSE g0
           IN /\ g.valid
              /\ devices' = g.devices
              /\ open_fds' = g.open_fds
              /\ held' = g.held
              /\ aborted' = g.aborted
              /\ gpu' = [state |-> "done", ret |-> g.fd, cards |-> cards,
                         probes |-> g.probes, closes |-> g.closes,
                         before |-> devices, held_before |-> held]
              /\ last' = Summary("find_gpu", -1,
                                 IF g.aborted THEN -1 ELSE g.fd, session.impl,
                                 IF g.aborted THEN "abort"
                                 ELSE IF ~enOK THEN "no_enumerate"
                                 ELSE "scanned")
    /\ UNCHANGED <<has_systemd, ptr, session, queue, log>>

\* ------------------------------------------------------------- hotplug
\* The kernel queues a record on the monitor, its action one of acts.
KernelEventOf(acts) ==
    /\ ~aborted
    /\ ptr = "live"
    /\ session.mon = "live"
    /\ Len(queue) < MaxQueue
    /\ \E a \in acts, d \in DevNums :
        queue' = Append(queue, [action |-> a, devnum |-> d])
    /\ last' = Summary("kernel_event", -1, 0, "none", "")
    /\ UNCHANGED <<gpu, has_systemd, ptr, session, devices, open_fds, held,
                   log, aborted>>

\* A record of any kind becomes pending.
KernelEvent == KernelEventOf(Actions)

\* A "change" record becomes pending.
KernelChange == KernelEventOf({"change"})

\* The action test without its strcmp: only a NULL action is discarded.
IsChange_NullOnly(action) == action # "none"

\* !action || strcmp(action, "change") != 0  is false
IsChange(action) == action # "none" /\ action = "change"

\* The scan without its break: every matching entry's signal is emitted.
RECURSIVE EmitScan_NoBreak(_, _, _)
EmitScan_NoBreak(devs, devnum, i) ==
    IF i > Len(devs) THEN <<>>
    ELSE IF devs[i].dev = devnum
    THEN <<i>> \o EmitScan_NoBreak(devs, devnum, i + 1)
    ELSE EmitScan_NoBreak(devs, devnum, i + 1)

\* The scan comparing the entry's fd, not its device number, with devnum.
RECURSIVE EmitScan_WrongField(_, _, _)
EmitScan_WrongField(devs, devnum, i) ==
    IF i > Len(devs) THEN <<>>
    ELSE IF devs[i].fd = devnum THEN <<i>>
    ELSE EmitScan_WrongField(devs, devnum, i + 1)

\* wl_list_for_each(dev, &session->devices, link): the positions of the
\* entries whose signal is emitted, scanning from position i.
RECURSIVE EmitScan(_, _, _)
EmitScan(devs, devnum, i) ==
    IF i > Len(devs) THEN <<>>
    ELSE IF devs[i].dev = devnum THEN <<i>>
    ELSE EmitScan(devs, devnum, i + 1)

\* wl_signal_emit reaching the listeners of every entry with the record's
\* device number instead of those of the entry the scan stopped at.
Notify_EveryMatch(devs, devnum, emitted) ==
    IF emitted = <<>> THEN <<>>
    ELSE LET Cat[i \in 0 .. Len(devs)] ==
                 IF i = 0 THEN <<>>
                 ELSE IF devs[i].dev = devnum THEN Cat[i - 1] \o devs[i].signal
                 ELSE Cat[i - 1]
         IN Cat[Len(devs)]

\* wl_signal_emit(&dev->signal, session): the listeners called, in the order
\* of the signal's list.
Notify(devs, devnum, emitted) ==
    IF emitted = <<>> THEN <<>> ELSE devs[emitted[1]].signal

\* udev_event returning at once on a record that is not a "change", without
\* reaching udev_device_unref.
Dispatch_LeaksIgnored(q, devs) ==
    IF q = <<>>
    THEN [queue |-> q, ret |-> 1, note |-> "no_record", rec |-> NoRec,
          emitted |-> <<>>, notified |-> <<>>, unref |-> 0]
    ELSE LET rec == Head(q)
             emitted == IF IsChange(rec.action)
                        THEN EmitScan(devs, rec.devnum, 1) ELSE <<>>
         IN [queue |-> Tail(q), ret |-> 1, note |-> "record", rec |-> rec,
             emitted |-> emitted,
             notified |-> Notify(devs, rec.devnum, emitted),
             unref |-> IF IsChange(rec.action) THEN 1 ELSE 0]

\* The body of udev_event on pending records q and registry devs:
\* udev_monitor_receive_device takes the oldest pending record (NULL when
\* there is none), the scan runs for a "change", and every path that
\* received a record leaves through udev_device_unref.
Dispatch(q, devs) ==
    IF q = <<>>
    THEN [queue |-> q, ret |-> 1, note |-> "no_record", rec |-> NoRec,
          emitted |-> <<>>, notified |-> <<>>, unref |-> 0]
    ELSE LET rec == Head(q)
             emitted == IF IsChange(rec.action)
                        THEN EmitScan(devs, rec.devnum, 1) ELSE <<>>
         IN [queue |-> Tail(q), ret |-> 1, note |-> "record", rec |-> rec,
             emitted |-> emitted,
             notified |-> Notify(devs, rec.devnum, emitted),
             unref |-> 1]

\* udev_event(fd, mask, data): the callback of the event source
UdevEvent ==
    /\ ~aborted
    /\ ptr = "live"
    /\ session.udev_event = "live"
    /\ LET d == Dispatch(queue, devices)
       IN /\ queue' = d.queue
          /\ last' = [Summary("udev_event", -1, d.ret, "none", d.note) EXCEPT
                        !.rec = d.rec,
                        !.emitted = d.emitted,
                        !.notified = d.notified,
                        !.unref = d.unref]
    /\ UNCHANGED <<gpu, has_systemd, ptr, session, devices, open_fds, held,
                   log, aborted>>

\* ------------------------------------------------------- specifications
\* Every operation but GPU discovery, which is made once on a created
\* session and is followed in SpecGpu.
Next ==
    \/ Create
    \/ Destroy
    \/ DestroyNull
    \/ ChangeVt
    \/ ChangeVtNull
    \/ OpenFile
    \/ CloseFile
    \/ SignalAdd
    \/ KernelEvent
    \/ UdevEvent

Spec == Init /\ [][Next]_vars

\* The session's lifetime and its registry, with no hotplug record arriving.
NextSession ==
    \/ Create
    \/ Destroy
    \/ DestroyNull
    \/ ChangeVt
    \/ ChangeVtNull
    \/ OpenFile
    \/ CloseFile
    \/ SignalAdd

SpecSession == Init /\ [][NextSession]_vars

\* A created session's registry and the hotplug dispatch into it.
NextHotplug ==
    \/ Create
    \/ OpenFile
    \/ CloseFile
    \/ KernelEvent
    \/ UdevEvent

SpecHotplug == Init /\ [][NextHotplug]_vars

\* A created session and the one GPU discovery made on it.
NextGpu ==
    \/ Create
    \/ FindGpu

SpecGpu == Init /\ [][NextGpu]_vars

\* A created session's registry with listeners attached and "change"
\* records dispatched into it.
NextListeners ==
    \/ Create
    \/ OpenFile
    \/ CloseFile
    \/ SignalAdd
    \/ KernelChange
    \/ UdevEvent

SpecListeners == Init /\ [][NextListeners]_vars

\* ============================================================== claims
RegistryFds(devs) == {devs[i].fd : i \in 1 .. Len(devs)}

DistinctDevs(devs) ==
    \A i, j \in 1 .. Len(devs) : i # j => devs[i].dev # devs[j].dev

Count(seq, x) == Cardinality({k \in 1 .. Len(seq) : seq[k] = x})

ReleaseCalls ==
    {"wl_event_source_remove", "udev_monitor_unref", "udev_unref", "impl_destroy"}

AcquireCalls == {"udev_new", "udev_monitor_new_from_netlink", "wl_event_loop_add_fd"}

IsRelease(e) == e.call \in ReleaseCalls

IsProbe(e) == e.call = "impl_create"

Releases == SelectSeq(log, IsRelease)

Probes == SelectSeq(log, IsProbe)

Names(calls) == [i \in 1 .. Len(calls) |-> calls[i].call]

NCalls(c) == Cardinality({i \in 1 .. Len(log) : log[i].call = c})

\* C1: the registry holds exactly one entry for every fd that open_file
\* returned as >= 0 and that was not since passed to close_file, and no other
\* entry; so its size is the number of such fds.
C1_RegistryIsHeldFds ==
    /\ RegistryFds(devices) = held
    /\ Len(devices) = Cardinality(held)

\* C2: when the backend open succeeded and the allocation or the stat then
\* failed, open_file returns a negative result, not the opened fd.
C2_OpenFailureReported ==
    (last.op = "open_file" /\ last.note \in {"alloc", "stat"}) => last.ret < 0

\* C3: with pairwise distinct device numbers in the registry, a dispatch of a
\* "change" record with device number d emits the signal of the entry whose
\* dev is d exactly once and the signal of no other entry (none at all when
\* no entry has dev d).
C3_HotplugRouting ==
    (/\ last.op = "udev_event"
     /\ last.note = "record"
     /\ last.rec.action = "change"
     /\ DistinctDevs(devices))
    => /\ \A k \in 1 .. Len(last.emitted) : last.emitted[k] \in 1 .. Len(devices)
       /\ \A i \in 1 .. Len(devices) :
            Count(last.emitted, i) = IF devices[i].dev = last.rec.devnum THEN 1 ELSE 0

\* Two tracked devices with distinct numbers; the record named the second
\* one in scan order, and only its signal was emitted.
C3_Witness ==
    /\ last.op = "udev_event"
    /\ last.rec.action = "change"
    /\ Len(devices) = 2
    /\ DistinctDevs(devices)
    /\ devices[2].dev = last.rec.devnum
    /\ last.emitted = <<2>>

\* C4: a dispatch whose record has an action other than "change" (or no
\* action) emits no signal and leaves the registry as it was, whatever the
\* record's device number.
C4_NonChangeIgnored ==
    [][(/\ last'.op = "udev_event"
        /\ last'.note = "record"
        /\ last'.rec.action # "change")
       => (last'.emitted = <<>> /\ devices' = devices)]_vars

\* An "add" record for the device number of a tracked entry was dispatched
\* and nothing was emitted.
C4_Witness ==
    /\ last.op = "udev_event"
    /\ last.rec.action = "add"
    /\ \E i \in 1 .. Len(devices) : devices[i].dev = last.rec.devnum
    /\ last.emitted = <<>>

\* C5: close_file or signal_add with an fd that has no entry ends on the
\* fatal path: the process is aborted, impl->close is not called (nothing is
\* closed at the backend), no listener is attached and the registry is as it
\* was.
C5_UntrackedFdIsFatal ==
    [][(/\ last'.op \in {"close_file", "signal_add"}
        /\ last'.arg \notin RegistryFds(devices))
       => (/\ aborted'
           /\ last'.note = "abort"
           /\ last'.via = "none"
           /\ open_fds' = open_fds
           /\ devices' = devices)]_vars

\* close_file was called on an fd without entry while the registry held
\* another device, and the process was aborted.
C5_Witness ==
    /\ aborted
    /\ last.op = "close_file"
    /\ devices # <<>>
    /\ last.arg \notin RegistryFds(devices)

\* C6: when create() returns failure because the monitor could not be
\* created, the udev context has been released exactly once, no release was
\* called for a handle that was never acquired, every release was of a live
\* handle, and impl->destroy has been called exactly once.
C6_MonitorFailureRollback ==
    (last.op = "create" /\ last.note = "mon_failed" /\ ~aborted)
    => /\ NCalls("udev_unref") = 1
       /\ \A i \in 1 .. Len(log) :
            (IsRelease(log[i]) /\ log[i].call # "impl_destroy") => log[i].arg = "live"
       /\ NCalls("impl_destroy") = 1

\* C7: when the registration with the event loop fails, create() returns
\* failure after releasing the monitor, then the udev context, then the
\* backend, each once, and without removing an event source.
C7_EventFailureRollback ==
    (last.op = "create" /\ last.note = "event_failed")
    => /\ ~aborted
       /\ Names(Releases) = <<"udev_monitor_unref", "udev_unref", "impl_destroy">>

\* C8: destroy() of a fully created session makes exactly four release
\* calls, each on a live handle: the event source, the monitor, the udev
\* context, then the backend's destroy.
C8_DestroyOrder ==
    (last.op = "destroy" /\ last.note = "live")
    => /\ ~aborted
       /\ Names(Releases) = <<"wl_event_source_remove", "udev_monitor_unref",
                              "udev_unref", "impl_destroy">>
       /\ \A i \in 1 .. 3 : Releases[i].arg = "live"
       /\ Releases[4].arg = session.impl

\* A created session with a tracked device was destroyed once.
C8_Witness ==
    /\ ptr = "dangling"
    /\ last.op = "destroy"
    /\ devices # <<>>
    /\ Len(Releases) = 4

\* C9: a second destroy() of a destroyed session makes no release call, and
\* destroy() of a null session changes nothing.
C9_SecondDestroyReleasesNothing ==
    [][(last'.op = "destroy" /\ last'.note \in {"stale", "null"})
       => (log' = log /\ session' = session /\ ~aborted')]_vars

\* C10: after create(), the backends probed are a prefix of impls in its
\* order, none was probed after a successful one, the session's backend is
\* the successful one and is the one called by open_file, close_file,
\* change_vt and destroy; if every probe failed, create() returned failure
\* having acquired nothing.
C10_BackendSelection ==
    (ptr # "uncreated")
    => /\ Len(Probes) <= Len(impls)
       /\ \A i \in 1 .. Len(Probes) : Probes[i].arg = impls[i]
       /\ \A i \in 1 .. Len(Probes) - 1 : ~Probes[i].ok
       /\ IF \E i \in 1 .. Len(Probes) : Probes[i].ok
          THEN /\ session.impl = Probes[Len(Probes)].arg
               /\ (\/ last.op = "open_file"
                   \/ (last.op = "change_vt" /\ last.note = "delegated")
                   \/ (last.op = "close_file" /\ last.note = "found")
                   \/ (last.op = "destroy" /\ last.note = "live"))
                  => last.via = Probes[Len(Probes)].arg
          ELSE /\ Len(Probes) = Len(impls)
               /\ ptr = "null"
               /\ \A i \in 1 .. Len(log) : log[i].call \notin AcquireCalls
               /\ session.udev = "unset"
               /\ session.mon = "unset"
               /\ session.udev_event = "unset"

\* The first backend's probe failed, the second's succeeded, and a file was
\* then opened through the second.
C10_Witness ==
    /\ ptr = "live"
    /\ Len(Probes) = 2
    /\ ~Probes[1].ok
    /\ last.op = "open_file"
    /\ last.ret >= 0
    /\ last.via = "direct"

\* C13: after destroy() of a session no Device entry of it remains: the
\* registry is empty and no fd opened through the session is still open and
\* tracked.
C13_NoEntryOutlivesSession ==
    (last.op = "destroy" /\ last.note = "live" /\ ~aborted)
    => (devices = <<>> /\ held = {})

\* C14: change_vt on a null session returns false without calling a backend;
\* otherwise it calls the session's backend once and returns what that
\* returned; in both cases the registry, the session's fields (active flag,
\* handles), the pending records and the backend's open fds are unchanged.
C14_ChangeVtDelegates ==
    [][(last'.op = "change_vt")
       => (/\ IF ptr \in {"uncreated", "null"}
              THEN last'.ret = 0 /\ last'.via = "none" /\ last'.arg = -1
              ELSE /\ last'.via = session.impl
                   /\ last'.arg \in {0, 1}
                   /\ last'.ret = last'.arg
           /\ devices' = devices
           /\ session' = session
           /\ queue' = queue
           /\ open_fds' = open_fds
           /\ log' = log
           /\ aborted' = aborted)]_vars

\* change_vt on a live session with a tracked device: the backend refused
\* and false was returned.
C14_Witness ==
    /\ last.op = "change_vt"
    /\ last.note = "delegated"
    /\ last.arg = 0
    /\ last.ret = 0
    /\ devices # <<>>

\* C17: on an allocation or stat failure in open_file after the backend
\* returned a valid fd, no entry is inserted (the registry is unchanged) and
\* impl->close is not called: the fd stays open at the backend, untracked.
C17_FailedOpenLeavesFdOpen ==
    [][(last'.op = "open_file" /\ last'.note \in {"alloc", "stat"})
       => (/\ last'.arg >= 0
           /\ devices' = devices
           /\ last'.arg \notin RegistryFds(devices')
           /\ open_fds' = open_fds \cup {last'.arg})]_vars

\* The stat failed on an fd the backend had opened, with another device
\* tracked: the fd is open and has no entry.
C17_Witness ==
    /\ last.op = "open_file"
    /\ last.note = "stat"
    /\ last.arg \in open_fds
    /\ last.arg \notin RegistryFds(devices)
    /\ devices # <<>>

\* A card whose probe succeeds: it resolves, its node opens and its mode
\* resources have crtcs, connectors and encoders.
Capable(c) == c.resolved /\ c.open = "ok" /\ c.kms

\* The card GPU discovery should settle on, 0 for none.
ExpectedCard(cards) ==
    LET bootKms == {i \in 1 .. Len(cards) : Capable(cards[i]) /\ cards[i].boot}
        anyKms == {i \in 1 .. Len(cards) : Capable(cards[i])}
    IN IF bootKms # {} THEN Min(bootKms)
       ELSE IF anyKms # {} THEN Min(anyKms)
       ELSE 0

\* C11: for every enumeration and every assignment of boot_vga and KMS
\* capability, a find_gpu that returns gives the fd it opened for the first
\* KMS-capable boot-VGA card if there is one, otherwise the fd of the first
\* KMS-capable card, otherwise -1.
C11_GpuSelection ==
    (gpu.state = "done" /\ last.op = "find_gpu" /\ ~aborted)
    => LET e == ExpectedCard(gpu.cards)
       IN IF e = 0 THEN gpu.ret = -1
          ELSE /\ gpu.ret >= 0
               /\ last.ret = gpu.ret
               /\ \E k \in 1 .. Len(gpu.probes) :
                    /\ gpu.probes[k].idx = e
                    /\ gpu.probes[k].ret = gpu.ret

\* Three KMS-capable cards of which only the second is boot-VGA: the first
\* was accepted and then replaced by the second, whose fd was returned.
C11_Witness ==
    /\ gpu.state = "done"
    /\ last.op = "find_gpu"
    /\ ~aborted
    /\ Len(gpu.cards) = 3
    /\ \A i \in 1 .. 3 : Capable(gpu.cards[i]) /\ gpu.cards[i].track = "ok"
    /\ ~gpu.cards[1].boot /\ gpu.cards[2].boot /\ ~gpu.cards[3].boot
    /\ ExpectedCard(gpu.cards) = 2
    /\ Len(gpu.probes) = 2
    /\ gpu.ret = gpu.probes[2].ret

\* C12: when find_gpu returns, every fd open_file gave it has been passed to
\* close_file except the one it returns, and the registry is the registry
\* before the call plus the entry of the returned fd (unchanged when it
\* returns -1).
C12_DiscoveryLeavesOnlyResult ==
    (gpu.state = "done" /\ last.op = "find_gpu" /\ ~aborted)
    => IF gpu.ret < 0
       THEN devices = gpu.before /\ held = gpu.held_before
       ELSE /\ Len(devices) = Len(gpu.before) + 1
            /\ devices[1].fd = gpu.ret
            /\ Tail(devices) = gpu.before
            /\ held = gpu.held_before \cup {gpu.ret}

\* C15: discovery opens a card only if the card is boot-VGA or no fd has
\* been accepted yet, and opens no card that comes after an accepted
\* boot-VGA card.
C15_ProbeOrder ==
    gpu.state = "done"
    => /\ \A k \in 1 .. Len(gpu.probes) :
            gpu.probes[k].boot \/ gpu.probes[k].had < 0
       /\ \A k \in 1 .. Len(gpu.probes) :
            (/\ gpu.probes[k].boot
             /\ Capable(gpu.cards[gpu.probes[k].idx]))
            => k = Len(gpu.probes)
       /\ \A k, j \in 1 .. Len(gpu.probes) :
            k < j => gpu.probes[k].idx < gpu.probes[j].idx

\* A non-boot card was accepted, the next non-boot card was passed over, and
\* the boot-VGA card after it was opened and accepted.
C15_Witness ==
    /\ gpu.state = "done"
    /\ ~aborted
    /\ Len(gpu.cards) = 3
    /\ \A i \in 1 .. 3 : Capable(gpu.cards[i])
    /\ ~gpu.cards[1].boot /\ ~gpu.cards[2].boot /\ gpu.cards[3].boot
    /\ Len(gpu.probes) = 2
    /\ gpu.probes[1].idx = 1
    /\ gpu.probes[2].idx = 3
    /\ gpu.probes[2].had >= 0

\* C16: discovery never takes close_file's abort path: every close_file it
\* makes is on an fd that has a Device entry, whatever the backend open,
\* the allocation, the stat and the mode-resource query did.
C16_DiscoveryNeverAborts ==
    gpu.state = "done"
    => /\ \A k \in 1 .. Len(gpu.closes) : gpu.closes[k].tracked
       /\ (last.op = "find_gpu" => ~aborted)

\* The positions of the entries of devs with device number d.
Matches(devs, d) == {i \in 1 .. Len(devs) : devs[i].dev = d}

\* C18: each run of the monitor callback takes at most one pending record,
\* the oldest; releases the record it took exactly once, matched or not;
\* returns 1 to stay registered; and emits within the same run only signals
\* of entries matching that record.  Records are therefore dispatched in the
\* order they were queued, each signal firing before the next record is taken.
C18_DispatchInQueueOrder ==
    [][(last'.op = "udev_event")
       => (/\ last'.ret = 1
           /\ devices' = devices
           /\ IF queue = <<>>
              THEN /\ queue' = queue
                   /\ last'.unref = 0
                   /\ last'.emitted = <<>>
              ELSE /\ queue' = Tail(queue)
                   /\ last'.rec = Head(queue)
                   /\ last'.unref = 1
                   /\ LET m == Matches(devices, Head(queue).devnum)
                      IN /\ \A k \in 1 .. Len(last'.emitted) :
                              last'.emitted[k] \in m
                         /\ (last'.emitted # <<>>)
                              <=> (Head(queue).action = "change" /\ m # {}))]_vars

\* Two different records were pending; the older one was dispatched to its
\* entry and released, the newer one is still pending.
C18_Witness ==
    /\ last.op = "udev_event"
    /\ last.note = "record"
    /\ last.unref = 1
    /\ last.emitted # <<>>
    /\ Len(queue) = 1
    /\ queue[1].action = "change"
    /\ queue[1].devnum # last.rec.devnum
    /\ Matches(devices, queue[1].devnum) # {}

\* C19: when several entries have the device number of a "change" record,
\* exactly one signal is emitted, that of the first of them in scan order;
\* that entry is the most recently opened of them, because open_file puts
\* the new entry at the head and close_file takes one entry out without
\* reordering the others.
C19_FirstMatchWins ==
    [][/\ (last'.op = "udev_event" /\ last'.note = "record"
           /\ last'.rec.action = "change"
           /\ Matches(devices, last'.rec.devnum) # {})
          => last'.emitted = <<Min(Matches(devices, last'.rec.devnum))>>
       /\ (last'.op = "open_file" /\ last'.note = "ok")
          => /\ Len(devices') = Len(devices) + 1
             /\ devices'[1].fd = last'.ret
             /\ Tail(devices') = devices
       /\ (last'.op = "close_file" /\ last'.note = "found")
          => \E i \in 1 .. Len(devices) : devices' = RemoveAt(devices, i)]_vars

\* Two entries share the record's device number; only the signal of the one
\* at the head, opened last, was emitted.
C19_Witness ==
    /\ last.op = "udev_event"
    /\ last.rec.action = "change"
    /\ Len(devices) = 2
    /\ devices[1].dev = last.rec.devnum
    /\ devices[2].dev = last.rec.devnum
    /\ last.emitted = <<1>>

\* The listeners attached to an entry.
ListenersOf(d) == {d.signal[k] : k \in 1 .. Len(d.signal)}

\* C20: a dispatch notifies exactly the listeners attached to the entry it
\* routed the record to, each once; close_file(fd) takes the listeners of the
\* closed entry out of the registry with it, and an entry made by a later
\* open_file starts with no listener, whatever its fd and device number: a
\* listener is notified only while the entry it was attached to is tracked.
C20_ListenerFollowsEntry ==
    [][/\ (last'.op = "udev_event")
          => \A l \in Listeners :
               Count(last'.notified, l) =
                 IF \E i \in 1 .. Len(devices) :
                      last'.emitted = <<i>> /\ l \in ListenersOf(devices[i])
                 THEN 1 ELSE 0
       /\ (last'.op = "close_file" /\ last'.note = "found")
          => LET i == Min({j \in 1 .. Len(devices) :
                              devices[j].fd = last'.arg})
             IN Attached(devices') =
                    Attached(devices) \ ListenersOf(devices[i])
       /\ (last'.op = "open_file" /\ last'.note = "ok")
          => /\ devices'[1].signal = <<>>
             /\ Attached(devices') = Attached(devices)]_vars

\* Two entries with the record's device number, the listener on the head
\* one: the head entry's signal was emitted and the listener called once.
C20_Witness ==
    /\ last.op = "udev_event"
    /\ last.rec.action = "change"
    /\ Len(devices) = 2
    /\ devices[1].dev = last.rec.devnum
    /\ devices[2].dev = last.rec.devnum
    /\ devices[1].signal # <<>>
    /\ last.emitted = <<1>>
    /\ last.notified = devices[1].signal
====
